---- MODULE Spec2Model ----
(***************************************************************************)
(* pypeflow/controller.py: the concurrent workflow                         *)
(* (_PypeConcurrentWorkflow.refreshTargets / _refreshTargets), its worker  *)
(* threads and the message queue between them.                             *)
(*                                                                         *)
(* One behaviour is one call of refreshTargets on a workflow of registered *)
(* tasks.  The scheduler is a sequential program; its position is pc.      *)
(* The workers run concurrently with it and talk to it only through        *)
(* messageQueue and through is_alive().                                    *)
(***************************************************************************)
EXTENDS Integers, Sequences, FiniteSets, TLC

\* ------------------------------------------------------------------ bounds

\* Largest nSlots a task of the model requests.
MaxNSlots == 2
\* Largest MAX_NUMBER_TASK_SLOT / CONCURRENT_THREAD_ALLOWED the model sets
\* with setNumThreadAllowed.
MaxAllowed == 3
\* The refreshTargets calls made in a row on one workflow.
MaxCalls == 2

\* The registry calls made on a workflow.
MaxRegistryCalls == 3

\* ------------------------------------------------- constants of the program

\* controller.py:628  "if len(activeDataObjs) < 100"
ActiveCheckLimit == 100

\* task.TaskInitialized / TaskDone / TaskFail (imported at controller.py:44).
\* The loop compares jobStatusMap values with the literals "done" and "fail".
TaskInitialized == "TaskInitialized"
TaskDone == "done"
TaskFail == "fail"

\* The texts the drain loop tells apart (controller.py:702-734).
MsgDone == "done"
MsgFail == "fail"
MsgStarted1 == "started, runflag: 1"
MsgStarted0 == "started, runflag: 0"
MsgOther == "unexpected"

\* ------------------------------------------------------------- PypeGraph

\* The order in which a Python set yields its elements is fixed by nothing in
\* the code: iter is a sequence that lists the candidates, and the elements of
\* a set come out in the order iter lists them.
InOrder(set, iter) == SelectSeq(iter, LAMBDA x : x \in set)

\* controller.py:98-128.  A row <<s, o>> is an RDF triple "s pype:prereq o";
\* it becomes the edge <<o, s>>.  subGraphNodes is [isNone, nodes]: None, or
\* a set of URLs.
PypeGraph(rows, subGraphNodes) ==
    LET kept == {r \in rows : ~subGraphNodes.isNone
                              => (r[1] \in subGraphNodes.nodes /\ r[2] \in subGraphNodes.nodes)}
    IN [allNodes |-> {r[1] : r \in kept} \cup {r[2] : r \in kept},
        allEdges |-> {<<r[2], r[1]>> : r \in kept}]

\* PypeNode.inDegree, controller.py:79-81, over the edges not yet removed
inDegree(edges, m) == Cardinality({e \in edges : e[2] = m})

\* A variant of lines 146-151 without the test of line 150.
RECURSIVE RemoveOutEdges_AlwaysPush(_, _, _)
RemoveOutEdges_AlwaysPush(st, n, outNodes) ==
    IF outNodes = << >> THEN st
    ELSE LET m == Head(outNodes)
         IN RemoveOutEdges_AlwaysPush([S |-> Append(st.S, m), edges |-> st.edges \ {<<n, m>>}],
                                      n, Tail(outNodes))

\* controller.py:146-151, the for loop over the out-nodes of n: st is
\* [S, edges], outNodes the nodes still to visit, in order.
RECURSIVE RemoveOutEdges(_, _, _)
RemoveOutEdges(st, n, outNodes) ==
    IF outNodes = << >> THEN st
    ELSE LET m == Head(outNodes)
             edges == st.edges \ {<<n, m>>}
         IN RemoveOutEdges([S |-> IF inDegree(edges, m) = 0 THEN Append(st.S, m) ELSE st.S,
                            edges |-> edges],
                           n, Tail(outNodes))

\* controller.py:142-151, the while loop: S.pop() takes the last element.
RECURSIVE tSortLoop(_, _, _, _)
tSortLoop(S, L, edges, iter) ==
    IF Len(S) = 0 THEN [L |-> L, edges |-> edges]
    ELSE LET n == S[Len(S)]
             outNodes == InOrder({e[2] : e \in {x \in edges : x[1] = n}}, iter)
             st == RemoveOutEdges([S |-> SubSeq(S, 1, Len(S) - 1), edges |-> edges],
                                  n, outNodes)
         IN tSortLoop(st.S, Append(L, n), st.edges, iter)

\* controller.py:134-157: [outcome, L], the outcome "returned" with the sorted
\* list L, or the outcome "TaskExecutionError".
tSort(graph, iter) ==
    LET S == InOrder({x \in graph.allNodes : inDegree(graph.allEdges, x) = 0}, iter)
        end == tSortLoop(S, << >>, graph.allEdges, iter)
    IN IF Cardinality(end.edges) # 0
         THEN [outcome |-> "TaskExecutionError", L |-> << >>]
         ELSE [outcome |-> "returned", L |-> end.L]

\* The rows between tasks that the prereq map of a workflow stands for.
PrereqRows(g) == {r \in (DOMAIN g) \X (DOMAIN g) : r[2] \in g[r[1]]}

\* The pairs <<a, c>> joined by a path of one row or more.
RECURSIVE TransitiveClosure(_)
TransitiveClosure(R) ==
    LET longer == R \cup {<<p[1][1], p[2][2]>> : p \in {q \in R \X R : q[1][2] = q[2][1]}}
    IN IF longer = R THEN R ELSE TransitiveClosure(longer)

\* Some node has a prereq path to itself.
HasCycle(rows) == \E r \in TransitiveClosure(rows) : r[1] = r[2]

\* ------------------------------------------------------------- the workflow

\* tSortedURLs: the URLs of the tasks, in the order tSort returned them.  tSort puts a
\* prerequisite before the tasks that need it, so the prereq edges of the
\* model go from a later task of this list to an earlier one.
TaskURLs == <<"T1", "T2", "T3">>

Range(s) == {s[i] : i \in 1..Len(s)}

TaskNames == Range(TaskURLs)

\* The tasks of the diamond: B and C need A, D needs B and C.
DiamondURLs == <<"A", "B", "C", "D">>

AllURLs == TaskURLs \o DiamondURLs

Index(t) == CHOOSE i \in 1..Len(AllURLs) : AllURLs[i] = t

\* A data object is named by a number.  A task declares no output, the one
\* output 1, or ActiveCheckLimit outputs (1 among them).
OutputChoices == {{}, {1}, 1..ActiveCheckLimit}

\* A task declares no mutable or the one mutable data object "m".
MutableChoices == {{}, {"m"}}

\* The prereq edges between tasks: every graph whose edges respect TaskURLs.
PrereqGraphs ==
    {g \in [TaskNames -> SUBSET TaskNames] : \A t \in TaskNames : \A p \in g[t] : Index(p) < Index(t)}

\* What the scheduler cannot know of a task before it runs it: the status
\* the task object holds when the call begins (TaskInitialized, or what an
\* earlier call left), what isSatisfied() answers, and what the task's body
\* posts: a first message or none, then done or fail.
Behaviour(st, sat, first, last) ==
    [status |-> st, satisfied |-> sat, announces |-> first, reports |-> last]

Succeeds == Behaviour(TaskInitialized, FALSE, "none", MsgDone)
Fails == Behaviour(TaskInitialized, FALSE, "none", MsgFail)
UpToDate == Behaviour(TaskInitialized, TRUE, "none", MsgDone)
WasDone == Behaviour(TaskDone, TRUE, "none", MsgDone)
WasFailed == Behaviour(TaskFail, FALSE, "none", MsgFail)
StartsThenSucceeds == Behaviour(TaskInitialized, FALSE, MsgStarted1, MsgDone)
StartsThenFails == Behaviour(TaskInitialized, FALSE, MsgStarted1, MsgFail)
StartsCompleted == Behaviour(TaskInitialized, FALSE, MsgStarted0, MsgDone)
Babbles == Behaviour(TaskInitialized, FALSE, MsgOther, MsgDone)

TaskObject(b, slots, outs, muts) ==
    [nSlots |-> slots, outputDataObjs |-> outs, mutableDataObjs |-> muts,
     status |-> b.status, satisfied |-> b.satisfied,
     announces |-> b.announces, reports |-> b.reports]

\* The callback argument (callback[0], callback[1], callback[2]) by the kinds
\* that _runCallback tells apart: None, a callable or another object; None, a
\* list or a dict.  NoCallback is the default of refreshTargets.
NoCallback == <<"None", "None", "None">>
Callbacks ==
    {NoCallback, <<"callable", "list", "dict">>, <<"callable", "list", "None">>,
     <<"callable", "dict", "dict">>, <<"callable", "None", "None">>, <<"object", "list", "dict">>}

\* Workflows that differ in the dependency graph, in the statuses the tasks
\* begin with and in which tasks fail; no resource is scarce, no data object
\* is shared.
DependencyWorkflows ==
    {[tasks |-> [t \in TaskNames |-> TaskObject(b[t], 1, {}, {})], prereq |-> g,
      maxSlots |-> MaxAllowed, maxThreads |-> MaxAllowed, exitOnFailure |-> e,
      callback |-> NoCallback] :
        g \in PrereqGraphs,
        b \in [TaskNames -> {Succeeds, Fails, UpToDate, WasDone, WasFailed}],
        e \in BOOLEAN}

\* Workflows that differ in the messages the bodies of the first tasks post.
MessageWorkflows ==
    {[tasks |-> [t \in TaskNames |-> TaskObject(b[t], 1, {}, {})], prereq |-> g,
      maxSlots |-> MaxAllowed, maxThreads |-> MaxAllowed, exitOnFailure |-> e,
      callback |-> NoCallback] :
        g \in PrereqGraphs,
        b \in {f \in [TaskNames -> {Succeeds, StartsThenSucceeds, StartsThenFails,
                               StartsCompleted, Babbles}] : f[TaskURLs[Len(TaskURLs)]] = Succeeds},
        e \in BOOLEAN}

\* Workflows that differ in the slots the tasks request and in the two caps.
ResourceWorkflows ==
    {[tasks |-> [t \in TaskNames |-> TaskObject(Succeeds, ns[t], {}, {})], prereq |-> g,
      maxSlots |-> ms, maxThreads |-> mt, exitOnFailure |-> TRUE,
      callback |-> NoCallback] :
        g \in PrereqGraphs,
        ns \in [TaskNames -> 1..MaxNSlots],
        ms \in 1..MaxAllowed, mt \in 1..MaxAllowed}

\* Workflows that differ in the outputs and mutables the tasks declare.
DataWorkflows ==
    {[tasks |-> [t \in TaskNames |-> TaskObject(Succeeds, 1, o[t], m[t])], prereq |-> g,
      maxSlots |-> MaxAllowed, maxThreads |-> MaxAllowed, exitOnFailure |-> TRUE,
      callback |-> NoCallback] :
        g \in PrereqGraphs,
        o \in [TaskNames -> OutputChoices], m \in [TaskNames -> MutableChoices]}

\* Workflows whose prereq edges form a cycle.
CyclicWorkflows ==
    {[tasks |-> [t \in TaskNames |-> TaskObject(b[t], 1, {}, {})], prereq |-> g,
      maxSlots |-> MaxAllowed, maxThreads |-> MaxAllowed, exitOnFailure |-> TRUE,
      callback |-> NoCallback] :
        g \in {h \in [TaskNames -> SUBSET TaskNames] : HasCycle(PrereqRows(h))},
        b \in [TaskNames -> {Succeeds, UpToDate}]}

\* The diamond, setNumThreadAllowed(4, 4), one slot a task, no task up to
\* date; a task's body succeeds or fails.
DiamondWorkflows ==
    {[tasks |-> [t \in Range(DiamondURLs) |-> TaskObject(b[t], 1, {}, {})],
      prereq |-> [t \in Range(DiamondURLs) |->
                     CASE t = "A" -> {}
                       [] t \in {"B", "C"} -> {"A"}
                       [] t = "D" -> {"B", "C"}],
      maxSlots |-> Len(DiamondURLs), maxThreads |-> Len(DiamondURLs), exitOnFailure |-> e,
      callback |-> NoCallback] :
        b \in [Range(DiamondURLs) -> {Succeeds, Fails}], e \in BOOLEAN}

\* Independent tasks that succeed or fail, and a callback given.
CallbackWorkflows ==
    {[tasks |-> [t \in TaskNames |-> TaskObject(b[t], 1, {}, {})],
      prereq |-> [t \in TaskNames |-> {}],
      maxSlots |-> MaxAllowed, maxThreads |-> MaxAllowed, exitOnFailure |-> e,
      callback |-> cb] :
        b \in [TaskNames -> {Succeeds, Fails}], e \in BOOLEAN, cb \in Callbacks \ {NoCallback}}

Workflows ==
    DependencyWorkflows \cup MessageWorkflows \cup ResourceWorkflows \cup DataWorkflows
        \cup CyclicWorkflows \cup DiamondWorkflows \cup CallbackWorkflows

\* ------------------------------------------------------------------ state

VARIABLES
    taskObjs,                  \* URL -> the task object: nSlots, outputDataObjs, mutableDataObjs, status
    prereq,                    \* URL -> the tasks it has a pype:prereq path to through one data object
    MAX_NUMBER_TASK_SLOT,      \* class attribute, set by setNumThreadAllowed
    CONCURRENT_THREAD_ALLOWED, \* class attribute, set by setNumThreadAllowed
    exitOnFailure,             \* argument of refreshTargets
    callback,                  \* argument of refreshTargets, one of Callbacks
    pc,                        \* where the scheduler is
    raised,                    \* the exception that escaped _refreshTargets, or "none"
    sortedTaskList,            \* sequence of <<URL, the status the task had when the call began>>
    jobStatusMap,              \* self.jobStatusMap
    prereqJobURLMap,
    jobsReadyToBeSubmitted,
    nSubmittedJob,
    usedTaskSlots,
    activeDataObjs,            \* set of <<task URL, output data object>>
    mutableDataObjs,           \* set of <<task URL, mutable data object>>
    updatedTaskURLs,
    failedJobCount,
    succeededJobCount,
    task2thread,               \* URL -> the state of the worker created for it
    messageQueue,              \* sequence of <<URL, message>>
    shutdown_event,
    finalizeLog,               \* URL -> what each finalize() call of the task saw
    readyLog,                  \* URL -> len(activeDataObjs) each time the task was marked ready
    callbackCalled,            \* _runCallback was reached
    terminateNotified,         \* notifyTerminate was called
    callCount,                 \* the refreshTargets calls made on the workflow so far
    rdfGraph,                  \* getSortedURLs: the rows "s pype:prereq o" as <<s, o>>
    objs,                      \* getSortedURLs: the URLs of the target objects
    iter,                      \* the order in which sets yield their elements
    tSortedURLs,               \* [outcome, L] of getSortedURLs, Unsorted before the call
    serialPc,                  \* where the serial refreshTargets is
    position,                  \* the serial loop's index into tSortedURLs
    callLog,                   \* the obj() and obj.finalize() calls the serial loop made
    bodyRaises,                \* the tasks whose body raised
    pypeObjects,               \* self._pypeObjects: URL -> the object registered
    lastCall,                  \* the last registry call: [op, args, outcome, n], n its number
    objectURL                  \* id of a registry object -> its URL attribute

cfgVars == <<prereq, MAX_NUMBER_TASK_SLOT, CONCURRENT_THREAD_ALLOWED, exitOnFailure, callback>>

loopVars == <<sortedTaskList, jobStatusMap, prereqJobURLMap, jobsReadyToBeSubmitted, nSubmittedJob,
              usedTaskSlots, activeDataObjs, mutableDataObjs,
              updatedTaskURLs, failedJobCount, succeededJobCount>>

\* What the calls of one workflow object share with nothing else of the model.
graphVars == <<rdfGraph, objs, iter, tSortedURLs>>

serialVars == <<serialPc, position, callLog, bodyRaises>>

registryVars == <<pypeObjects, lastCall, objectURL>>

\* The variables the steps of one concurrent refreshTargets call leave alone.
restVars == <<callCount, graphVars, serialVars, registryVars>>

schedulerVars == <<taskObjs, cfgVars, pc, raised, loopVars, task2thread, messageQueue,
                   shutdown_event, finalizeLog, readyLog, callbackCalled, terminateNotified,
                   callCount>>

vars == <<schedulerVars, graphVars, serialVars, registryVars>>

\* The tasks registered in the workflow.
Tasks == DOMAIN taskObjs

\* A worker is "running" (started, nothing posted), "announced" (its first
\* message posted), "reported" (its done/fail posted, still alive) or "exited".
ThreadStates == {"running", "announced", "reported", "exited"}

\* _PypeThreadsHandler.alive / _PypeProcsHandler.alive
alive(threads) == Cardinality({u \in DOMAIN threads : threads[u] # "exited"})

\* rdfGraph.transitive_objects(URIRef(URL), pypeNS["prereq"]), tasks only
RECURSIVE transitive_objects(_, _)
transitive_objects(g, URL) == {URL} \cup UNION {transitive_objects(g, p) : p \in g[URL]}

\* controller.py:570-571
prereqJobURLs(g, URL) == {u \in transitive_objects(g, URL) : u # URL}

\* The values of the variables of the parts of the module that take no step.
Unsorted == [outcome |-> "unsorted", L |-> << >>]

GraphIdle == rdfGraph = {} /\ objs = {} /\ iter = << >> /\ tSortedURLs = Unsorted

SerialIdle == serialPc = "idle" /\ position = 0 /\ callLog = << >> /\ bodyRaises = {}

\* No registry call has been made.
NoCall == [op |-> "none", args |-> << >>, outcome |-> "returned", n |-> 0]

RegistryIdle == pypeObjects = << >> /\ lastCall = NoCall /\ objectURL = << >>

Init ==
    /\ \E w \in Workflows :
         /\ taskObjs = w.tasks
         /\ prereq = w.prereq
         /\ MAX_NUMBER_TASK_SLOT = w.maxSlots
         /\ CONCURRENT_THREAD_ALLOWED = w.maxThreads
         /\ exitOnFailure = w.exitOnFailure
         /\ callback = w.callback
    /\ pc = "call"
    /\ raised = "none"
    /\ sortedTaskList = << >>
    /\ jobStatusMap = << >>
    /\ prereqJobURLMap = << >>
    /\ jobsReadyToBeSubmitted = << >>
    /\ nSubmittedJob = 0
    /\ usedTaskSlots = 0
    /\ activeDataObjs = {}
    /\ mutableDataObjs = {}
    /\ updatedTaskURLs = {}
    /\ failedJobCount = 0
    /\ succeededJobCount = 0
    /\ task2thread = << >>
    /\ messageQueue = << >>
    /\ shutdown_event = FALSE
    /\ finalizeLog = [t \in Tasks |-> << >>]
    /\ readyLog = [t \in Tasks |-> << >>]
    /\ callbackCalled = FALSE
    /\ terminateNotified = FALSE
    /\ callCount = 1
    /\ GraphIdle /\ SerialIdle /\ RegistryIdle

\* ------------------------------------------------- _refreshTargets: set-up

\* The values of the variables of the concurrent workflow while another part
\* of the module takes the steps.
SchedulerIdle ==
    /\ taskObjs = << >> /\ prereq = << >>
    /\ MAX_NUMBER_TASK_SLOT = 0 /\ CONCURRENT_THREAD_ALLOWED = 0 /\ exitOnFailure = TRUE
    /\ callback = NoCallback
    /\ pc = "idle" /\ raised = "none"
    /\ sortedTaskList = << >> /\ jobStatusMap = << >> /\ prereqJobURLMap = << >>
    /\ jobsReadyToBeSubmitted = << >> /\ nSubmittedJob = 0 /\ usedTaskSlots = 0
    /\ activeDataObjs = {} /\ mutableDataObjs = {} /\ updatedTaskURLs = {}
    /\ failedJobCount = 0 /\ succeededJobCount = 0
    /\ task2thread = << >> /\ messageQueue = << >> /\ shutdown_event = FALSE
    /\ finalizeLog = << >> /\ readyLog = << >>
    /\ callbackCalled = FALSE /\ terminateNotified = FALSE /\ callCount = 0

\* A variant of the test of line 577 that accepts every request.
SlotOverflow_Never(URL) == FALSE

\* controller.py:577
SlotOverflow(URL) == taskObjs[URL].nSlots > MAX_NUMBER_TASK_SLOT

\* controller.py:377-383: every target and all that rdfGraph.transitive_objects
\* yields for it.
connectedPypeNodes(rows, targets) ==
    targets \cup {r[2] : r \in {x \in TransitiveClosure(rows) : x[1] \in targets}}

\* controller.py:375-387.  targets is the set of the URLs of objs; order is
\* the order in which the sets of tSort yield their elements.
getSortedURLs(rows, targets, order) ==
    IF Cardinality(targets) # 0
      THEN tSort(PypeGraph(rows, [isNone |-> FALSE, nodes |-> connectedPypeNodes(rows, targets)]),
                 order)
      ELSE tSort(PypeGraph(rows, [isNone |-> TRUE, nodes |-> {}]), order)

\* controller.py:558-561.  Of a graph without cycle the model keeps the tasks
\* in the order of AllURLs, which a sort can return as PrereqGraphs has only
\* edges from a later task to an earlier one.
SortedTasks(g) ==
    IF getSortedURLs(PrereqRows(g), {}, AllURLs).outcome = "TaskExecutionError"
      THEN [outcome |-> "TaskExecutionError", L |-> << >>]
      ELSE [outcome |-> "returned", L |-> InOrder(DOMAIN g, AllURLs)]

\* controller.py:521 and 555-592
Begin ==
    /\ pc = "call"
    /\ task2thread' = << >>
    /\ jobsReadyToBeSubmitted' = << >>
    /\ nSubmittedJob' = 0
    /\ usedTaskSlots' = 0
    /\ activeDataObjs' = {}
    /\ mutableDataObjs' = {}
    /\ updatedTaskURLs' = {}
    /\ failedJobCount' = 0
    /\ succeededJobCount' = 0
    /\ finalizeLog' = [t \in Tasks |-> << >>]
    /\ readyLog' = [t \in Tasks |-> << >>]
    /\ LET tSorted == SortedTasks(prereq)
           sorted == tSorted.L
       IN IF tSorted.outcome = "TaskExecutionError"
            THEN /\ pc' = "except" /\ raised' = "TaskExecutionError"
                 /\ UNCHANGED <<sortedTaskList, jobStatusMap, prereqJobURLMap>>
            ELSE /\ sortedTaskList' =
                       [i \in 1..Len(sorted) |-> <<sorted[i], taskObjs[sorted[i]].status>>]
                 /\ jobStatusMap' = [t \in Tasks |-> taskObjs[t].status]
                 /\ prereqJobURLMap' = [t \in Tasks |-> prereqJobURLs(prereq, t)]
                 /\ IF \E t \in Tasks : SlotOverflow(t)
                      THEN pc' = "except" /\ raised' = "TaskExecutionError"
                      ELSE pc' = "loop" /\ raised' = raised
    /\ UNCHANGED <<restVars, taskObjs, cfgVars, messageQueue, shutdown_event,
                   callbackCalled, terminateNotified>>

\* ------------------------------------------- _refreshTargets: admission scan

\* The locals of _refreshTargets and the fields it writes, as one record: the
\* loops below are folds over it.
Locals ==
    [jobStatusMap |-> jobStatusMap,
     taskStatus |-> [t \in Tasks |-> taskObjs[t].status],
     jobsReadyToBeSubmitted |-> jobsReadyToBeSubmitted,
     nSubmittedJob |-> nSubmittedJob,
     usedTaskSlots |-> usedTaskSlots,
     numAliveThreads |-> 0,
     activeDataObjs |-> activeDataObjs,
     mutableDataObjs |-> mutableDataObjs,
     updatedTaskURLs |-> updatedTaskURLs,
     failedJobCount |-> failedJobCount,
     succeededJobCount |-> succeededJobCount,
     task2thread |-> task2thread,
     messageQueue |-> messageQueue,
     finalizeLog |-> finalizeLog,
     readyLog |-> readyLog,
     raised |-> "none"]

\* The scheduler's step ends with the locals s, at newpc.
Commit(s, newpc) ==
    /\ jobStatusMap' = s.jobStatusMap
    /\ taskObjs' = [t \in Tasks |-> [taskObjs[t] EXCEPT !.status = s.taskStatus[t]]]
    /\ jobsReadyToBeSubmitted' = s.jobsReadyToBeSubmitted
    /\ nSubmittedJob' = s.nSubmittedJob
    /\ usedTaskSlots' = s.usedTaskSlots
    /\ activeDataObjs' = s.activeDataObjs
    /\ mutableDataObjs' = s.mutableDataObjs
    /\ updatedTaskURLs' = s.updatedTaskURLs
    /\ failedJobCount' = s.failedJobCount
    /\ succeededJobCount' = s.succeededJobCount
    /\ task2thread' = s.task2thread
    /\ messageQueue' = s.messageQueue
    /\ finalizeLog' = s.finalizeLog
    /\ readyLog' = s.readyLog
    /\ raised' = s.raised
    /\ pc' = newpc
    /\ UNCHANGED <<restVars, cfgVars, sortedTaskList, prereqJobURLMap, shutdown_event,
                   terminateNotified>>

\* What one finalize() call of task URL saw: the status jobStatusMap held for
\* it, and whether its claims were in the active sets.
FinalizeCall(s, URL) ==
    [status |-> s.jobStatusMap[URL],
     claimsHeld |-> /\ \A o \in taskObjs[URL].outputDataObjs : <<URL, o>> \in s.activeDataObjs
                    /\ \A o \in taskObjs[URL].mutableDataObjs : <<URL, o>> \in s.mutableDataObjs]

\* A variant of the test of line 612 that takes a failed prerequisite for a
\* finished one.
PrereqsNotDone_FailCounts(jsm, URL) ==
    \E u \in prereqJobURLMap[URL] : jsm[u] \notin {"done", "fail"}

\* A variant of the test of line 612 that one finished prerequisite satisfies.
PrereqsNotDone_AnyDone(jsm, URL) ==
    /\ prereqJobURLMap[URL] # {}
    /\ \A u \in prereqJobURLMap[URL] : jsm[u] # "done"

\* controller.py:612
PrereqsNotDone(jsm, URL) == \E u \in prereqJobURLMap[URL] : jsm[u] # "done"

\* A variant of the test of line 620 with the comparison of the task URLs
\* inverted.
MutableCollision_SameTask(mset, URL) ==
    \E dataObj \in taskObjs[URL].mutableDataObjs :
        \E c \in mset : dataObj = c[2] /\ URL = c[1]

\* controller.py:617-624
MutableCollision(mset, URL) ==
    \E dataObj \in taskObjs[URL].mutableDataObjs :
        \E c \in mset : dataObj = c[2] /\ URL # c[1]

\* controller.py:628
CollisionChecked(aset) == Cardinality(aset) < ActiveCheckLimit

\* A variant of the test of line 632 with the comparison of the task URLs
\* inverted.
OutputCollision_SameTask(aset, URL) ==
    \E dataObj \in taskObjs[URL].outputDataObjs :
        \E c \in aset : dataObj = c[2] /\ URL = c[1]

\* controller.py:630-632
OutputCollision(aset, URL) ==
    \E dataObj \in taskObjs[URL].outputDataObjs :
        \E c \in aset : dataObj = c[2] /\ URL # c[1]

\* A variant of the test of line 637 that asks isSatisfied() alone.
AlreadyDone_SatisfiedOnly(upd, URL) == taskObjs[URL].satisfied

\* controller.py:637
AlreadyDone(upd, URL) ==
    /\ prereqJobURLMap[URL] \cap upd = {}
    /\ taskObjs[URL].satisfied

\* A variant of lines 641-644 that counts the skipped task as updated.
SkipTask_Updated(s, URL) ==
    LET done == [s EXCEPT !.taskStatus[URL] = TaskDone, !.jobStatusMap[URL] = TaskDone,
                          !.updatedTaskURLs = @ \cup {URL}]
    IN [done EXCEPT !.finalizeLog[URL] = Append(@, FinalizeCall(done, URL))]

\* A variant of lines 641-644 without the finalize() call of line 644.
SkipTask_NoFinalize(s, URL) ==
    [s EXCEPT !.taskStatus[URL] = TaskDone, !.jobStatusMap[URL] = TaskDone]

\* controller.py:641-644
SkipTask(s, URL) ==
    LET done == [s EXCEPT !.taskStatus[URL] = TaskDone, !.jobStatusMap[URL] = TaskDone]
    IN [done EXCEPT !.finalizeLog[URL] = Append(@, FinalizeCall(done, URL))]

\* controller.py:646-653
MarkReady(s, URL) ==
    [s EXCEPT !.jobStatusMap[URL] = "ready",
              !.jobsReadyToBeSubmitted = Append(@, URL),
              !.activeDataObjs = @ \cup {<<URL, o>> : o \in taskObjs[URL].outputDataObjs},
              !.mutableDataObjs = @ \cup {<<URL, o>> : o \in taskObjs[URL].mutableDataObjs},
              !.readyLog[URL] = Append(@, Cardinality(s.activeDataObjs))]

\* controller.py:600-653, the body of the for loop for one task
ScanTask(s, URL) ==
    IF s.jobStatusMap[URL] # TaskInitialized THEN s
    ELSE IF PrereqsNotDone(s.jobStatusMap, URL) THEN s
    ELSE IF MutableCollision(s.mutableDataObjs, URL) THEN s
    ELSE IF CollisionChecked(s.activeDataObjs) /\ OutputCollision(s.activeDataObjs, URL)
        THEN [s EXCEPT !.raised = "OutputCollision"]
    ELSE IF AlreadyDone(s.updatedTaskURLs, URL) THEN SkipTask(s, URL)
    ELSE MarkReady(s, URL)

\* controller.py:600, the for loop over sortedTaskList; a raise ends it.
RECURSIVE ScanLoop(_, _)
ScanLoop(s, i) ==
    IF i > Len(sortedTaskList) \/ s.raised # "none" THEN s
    ELSE ScanLoop(ScanTask(s, sortedTaskList[i][1]), i + 1)

\* ----------------------------------- _refreshTargets: loop exit and dispatch

\* controller.py:660
NothingLeft(s) ==
    /\ s.numAliveThreads = 0
    /\ Len(s.jobsReadyToBeSubmitted) = 0
    /\ Len(s.messageQueue) = 0

\* controller.py:663-665
ExitAssertionHolds(s) ==
    \A URL \in DOMAIN s.task2thread : s.jobStatusMap[URL] \in {"done", "fail"}

\* A variant of the test of line 672 without the comparison of the slots.
CanSubmit_ThreadsOnly(used, nAlive, URL) == nAlive < CONCURRENT_THREAD_ALLOWED

\* A variant of the test of line 672 without the count of the workers alive.
CanSubmit_SlotsOnly(used, nAlive, URL) ==
    MAX_NUMBER_TASK_SLOT - used >= taskObjs[URL].nSlots

\* controller.py:670-672
CanSubmit(used, nAlive, URL) ==
    /\ MAX_NUMBER_TASK_SLOT - used >= taskObjs[URL].nSlots
    /\ nAlive < CONCURRENT_THREAD_ALLOWED

\* controller.py:673-683
Submit(s, URL) ==
    [s EXCEPT !.task2thread = (URL :> "running") @@ @,
              !.nSubmittedJob = @ + 1,
              !.usedTaskSlots = @ + taskObjs[URL].nSlots,
              !.numAliveThreads = @ + 1,
              !.jobStatusMap[URL] = "submitted",
              !.jobsReadyToBeSubmitted = Tail(@)]

\* A variant of lines 668-685 that, when the first ready task does not fit,
\* submits the one behind it if that one fits.
RECURSIVE DispatchLoop_SkipBlocked(_)
DispatchLoop_SkipBlocked(s) ==
    IF s.jobsReadyToBeSubmitted = << >> THEN s
    ELSE LET q == s.jobsReadyToBeSubmitted IN
         IF CanSubmit(s.usedTaskSlots, s.numAliveThreads, q[1])
           THEN DispatchLoop_SkipBlocked(Submit(s, q[1]))
         ELSE IF Len(q) >= 2 /\ CanSubmit(s.usedTaskSlots, s.numAliveThreads, q[2])
           THEN [Submit(s, q[2]) EXCEPT !.jobsReadyToBeSubmitted = <<q[1]>> \o SubSeq(q, 3, Len(q))]
         ELSE s

\* controller.py:668-685, the while loop
RECURSIVE DispatchLoop(_)
DispatchLoop(s) ==
    IF s.jobsReadyToBeSubmitted = << >> THEN s
    ELSE LET URL == Head(s.jobsReadyToBeSubmitted) IN
         IF CanSubmit(s.usedTaskSlots, s.numAliveThreads, URL)
           THEN DispatchLoop(Submit(s, URL))
           ELSE s

\* controller.py:404-421, _runCallback: the callback is invoked (418), an
\* exception is raised (411, 416, 421), or nothing is done.  cb[1], cb[2],
\* cb[3] are callback[0], callback[1], callback[2]; line 413 tests callback[1].
runCallback(cb) ==
    IF cb[1] = "callable"
      THEN IF cb[2] # "list" THEN "TaskExecutionError"
           ELSE IF ~(cb[3] # "None" /\ cb[2] = "dict") THEN "TaskExecutionError"
           ELSE "invoked"
    ELSE IF cb[1] # "None" THEN "TaskExecutionError"
    ELSE "nothing"

\* controller.py:600-685, and 743-751 when the loop ends: one pass of the
\* admission scan, the count of the workers alive, then either the end of the
\* loop or the dispatch of the ready tasks.  The workers write nothing the
\* scan reads, so the pass up to time.sleep() is one step.
Iterate ==
    /\ pc = "loop"
    /\ LET scanned == ScanLoop(Locals, 1)
           s == [scanned EXCEPT !.numAliveThreads = alive(task2thread)]
       IN IF scanned.raised # "none"
              THEN Commit(scanned, "except") /\ callbackCalled' = callbackCalled
            ELSE IF ~NothingLeft(s)
              THEN Commit(DispatchLoop(s), "drain") /\ callbackCalled' = callbackCalled
            ELSE IF ~ExitAssertionHolds(s)
              THEN Commit([s EXCEPT !.raised = "AssertionError"], "except")
                   /\ callbackCalled' = callbackCalled
            ELSE IF runCallback(callback) = "TaskExecutionError"
              THEN Commit([s EXCEPT !.raised = "TaskExecutionError"], "except")
                   /\ callbackCalled' = TRUE
            ELSE IF s.failedJobCount # 0
              THEN Commit([s EXCEPT !.raised = "LateTaskFailureError"], "except")
                   /\ callbackCalled' = TRUE
            ELSE Commit(s, "returned") /\ callbackCalled' = TRUE

\* --------------------------------------------- _refreshTargets: drain loop

\* A variant of lines 711-714 and 724-727 that removes nothing.
ReleaseClaims_Kept(claims, URL) == claims

\* controller.py:711-714 and 724-727
ReleaseClaims(claims, URL) == {c \in claims : c[1] # URL}

\* A variant of line 699 that stores TaskInitialized for a done message.
StatusAfterMessage_Reset(old, message) ==
    IF message = MsgDone THEN TaskInitialized ELSE message

\* A variant of line 699 that keeps the value jobStatusMap holds.
StatusAfterMessage_Kept(old, message) == old

\* controller.py:699
StatusAfterMessage(old, message) == message

\* A variant of lines 702-727 that removes the claims before it calls
\* finalize().
Finished_ReleaseFirst(s, URL, message) ==
    LET counted == [s EXCEPT !.nSubmittedJob = @ - 1,
                             !.usedTaskSlots = @ - taskObjs[URL].nSlots,
                             !.succeededJobCount = @ + (IF message = MsgDone THEN 1 ELSE 0),
                             !.failedJobCount = @ + (IF message = MsgFail THEN 1 ELSE 0),
                             !.activeDataObjs = {c \in @ : c[1] # URL},
                             !.mutableDataObjs = {c \in @ : c[1] # URL}]
    IN [counted EXCEPT !.finalizeLog[URL] = Append(@, FinalizeCall(counted, URL))]

\* controller.py:702-727
Finished(s, URL, message) ==
    LET counted == [s EXCEPT !.nSubmittedJob = @ - 1,
                             !.usedTaskSlots = @ - taskObjs[URL].nSlots,
                             !.succeededJobCount = @ + (IF message = MsgDone THEN 1 ELSE 0),
                             !.failedJobCount = @ + (IF message = MsgFail THEN 1 ELSE 0)]
        finalized == [counted EXCEPT !.finalizeLog[URL] = Append(@, FinalizeCall(counted, URL))]
    IN [finalized EXCEPT !.activeDataObjs = ReleaseClaims(@, URL),
                         !.mutableDataObjs = ReleaseClaims(@, URL)]

\* controller.py:697-734, one message
DrainMessage(s, URL, message) ==
    LET got == [s EXCEPT !.messageQueue = Tail(@),
                         !.updatedTaskURLs = @ \cup {URL},
                         !.jobStatusMap[URL] = StatusAfterMessage(@, message)]
    IN IF message \in {MsgDone, MsgFail} THEN Finished(got, URL, message)
       ELSE IF message = MsgStarted0 THEN [got EXCEPT !.raised = "ProtocolViolation"]
       ELSE got

\* controller.py:695, the while loop; a raise ends it.
RECURSIVE DrainLoop(_)
DrainLoop(s) ==
    IF s.messageQueue = << >> \/ s.raised # "none" THEN s
    ELSE DrainLoop(DrainMessage(s, Head(s.messageQueue)[1], Head(s.messageQueue)[2]))

\* A variant of the test of line 739 that ignores exitOnFailure.
PromptFailure_AnyFailure(failed, succeeded) == failed # 0

\* A variant of the test of line 739 without "succeededJobCount == 0".
PromptFailure_ExitOnly(failed, succeeded) == failed # 0 /\ exitOnFailure

\* controller.py:739
PromptFailure(failed, succeeded) == failed # 0 /\ (exitOnFailure \/ succeeded = 0)

\* controller.py:687-740: after time.sleep(), the messages are drained and the
\* failures counted.  A message put while the loop runs is drained by it, as
\* one put just before is.
Drain ==
    /\ pc = "drain"
    /\ LET s == DrainLoop(Locals)
       IN IF s.raised # "none" THEN Commit(s, "except")
          ELSE IF PromptFailure(s.failedJobCount, s.succeededJobCount)
            THEN Commit([s EXCEPT !.raised = "TaskFailureError"], "except")
          ELSE Commit(s, "loop")
    /\ UNCHANGED callbackCalled

\* -------------------------------------------- refreshTargets: the except arm

\* controller.py:525-540
ExceptShutdown ==
    /\ pc = "except"
    /\ shutdown_event' = TRUE
    /\ pc' = "join"
    /\ UNCHANGED <<restVars, taskObjs, cfgVars, raised, loopVars, task2thread, messageQueue,
                   finalizeLog, readyLog, callbackCalled, terminateNotified>>

\* A variant of the loop of line 542 that never joins.
JoinMore_Never(threads) == FALSE

\* controller.py:542
JoinMore(threads) == alive(threads) # 0

\* controller.py:542-544 when no worker is alive any more, then 548
JoinEnd ==
    /\ pc = "join"
    /\ ~JoinMore(task2thread)
    /\ pc' = "reraised"
    /\ UNCHANGED <<restVars, taskObjs, cfgVars, raised, loopVars, task2thread, messageQueue,
                   shutdown_event, finalizeLog, readyLog, callbackCalled, terminateNotified>>

\* controller.py:545-548: KeyboardInterrupt or SystemExit inside th.join.
\* _PypeProcsHandler.notifyTerminate terminates the live processes (they
\* post nothing more); _PypeThreadsHandler.notifyTerminate only joins.
JoinInterrupted ==
    /\ pc = "join"
    /\ JoinMore(task2thread)
    /\ \E procs \in BOOLEAN :
         task2thread' = IF procs THEN [u \in DOMAIN task2thread |-> "exited"] ELSE task2thread
    /\ terminateNotified' = TRUE
    /\ pc' = "reraised"
    /\ UNCHANGED <<restVars, taskObjs, cfgVars, raised, loopVars, messageQueue, shutdown_event,
                   finalizeLog, readyLog, callbackCalled>>

\* -------------------------------------------------------------- the workers

\* The task body, run by the worker: it may first post a started message.
WorkerAnnounce(URL) ==
    /\ URL \in DOMAIN task2thread
    /\ task2thread[URL] = "running"
    /\ taskObjs[URL].announces # "none"
    /\ messageQueue' = Append(messageQueue, <<URL, taskObjs[URL].announces>>)
    /\ task2thread' = [task2thread EXCEPT ![URL] = "announced"]
    /\ UNCHANGED <<restVars, taskObjs, cfgVars, pc, raised, loopVars, shutdown_event, finalizeLog,
                   readyLog, callbackCalled, terminateNotified>>

\* The task body ends: it posts done or fail.
WorkerReport(URL) ==
    /\ URL \in DOMAIN task2thread
    /\ \/ task2thread[URL] = "running" /\ taskObjs[URL].announces = "none"
       \/ task2thread[URL] = "announced"
    /\ messageQueue' = Append(messageQueue, <<URL, taskObjs[URL].reports>>)
    /\ task2thread' = [task2thread EXCEPT ![URL] = "reported"]
    /\ UNCHANGED <<restVars, taskObjs, cfgVars, pc, raised, loopVars, shutdown_event, finalizeLog,
                   readyLog, callbackCalled, terminateNotified>>

\* The worker terminates: is_alive() turns false.
WorkerExit(URL) ==
    /\ URL \in DOMAIN task2thread
    /\ task2thread[URL] = "reported"
    /\ task2thread' = [task2thread EXCEPT ![URL] = "exited"]
    /\ UNCHANGED <<restVars, taskObjs, cfgVars, pc, raised, loopVars, messageQueue, shutdown_event,
                   finalizeLog, readyLog, callbackCalled, terminateNotified>>

Worker ==
    \E URL \in Range(AllURLs) : WorkerAnnounce(URL) \/ WorkerReport(URL) \/ WorkerExit(URL)

\* --------------------------------------------------------------- the caller

\* After refreshTargets returned True the caller calls it again with the same
\* targets.  Nothing changed in between: isSatisfied() is true of every task.
\* A task that a thread ran holds the status its body left; a task that a
\* process ran was run in a copy, and the object of the workflow holds the
\* status it had.
CallAgain ==
    /\ pc = "returned"
    /\ callCount < MaxCalls
    /\ callCount' = callCount + 1
    /\ pc' = "call"
    /\ \E procs \in BOOLEAN :
         taskObjs' = [t \in Tasks |->
                        [taskObjs[t] EXCEPT !.satisfied = TRUE,
                                            !.status = IF ~procs /\ t \in DOMAIN task2thread
                                                         THEN jobStatusMap[t] ELSE @]]
    /\ callbackCalled' = FALSE
    /\ UNCHANGED <<graphVars, serialVars, registryVars, cfgVars, raised, loopVars,
                   task2thread, messageQueue, shutdown_event, finalizeLog, readyLog,
                   terminateNotified>>

Next ==
    \/ CallAgain
    \/ Begin
    \/ Iterate
    \/ Drain
    \/ ExceptShutdown
    \/ JoinEnd
    \/ JoinInterrupted
    \/ Worker

Spec == Init /\ [][Next]_vars

\* ------------------------------------------------------- getSortedURLs alone

\* The URLs of the objects registered in a workflow whose graph is sorted.
GraphURLs == {"n1", "n2", "n3"}

\* The sequences that list every element of a set once.
Orders(set) ==
    {f \in [1..Cardinality(set) -> set] : \A i, j \in DOMAIN f : f[i] = f[j] => i = j}

InitGraph ==
    /\ rdfGraph \in SUBSET (GraphURLs \X GraphURLs)
    /\ objs \in SUBSET GraphURLs
    /\ iter \in Orders(GraphURLs)
    /\ tSortedURLs = Unsorted
    /\ SchedulerIdle /\ SerialIdle /\ RegistryIdle

\* controller.py:375-387
Sort ==
    /\ tSortedURLs = Unsorted
    /\ tSortedURLs' = getSortedURLs(rdfGraph, objs, iter)
    /\ UNCHANGED <<schedulerVars, rdfGraph, objs, iter, serialVars, registryVars>>

NextGraph == Sort

SpecGraph == InitGraph /\ [][NextGraph]_vars

\* ------------------------------------------------- the serial refreshTargets

\* An object of a workflow: id is the identity of the Python object, isTask
\* is isinstance(obj, PypeTaskBase), dataObjs lists the input, output and
\* mutable data objects that a task declares.
PypeObject(id, URL, isTask, dataObjs) ==
    [id |-> id, URL |-> URL, isTask |-> isTask, dataObjs |-> dataObjs]

\* A workflow of three registered objects, each a task or a data object, any
\* prereq rows between two of them, any targets.
InitSerial ==
    /\ rdfGraph \in SUBSET {r \in GraphURLs \X GraphURLs : r[1] # r[2]}
    /\ objs \in SUBSET GraphURLs
    /\ iter \in Orders(GraphURLs)
    /\ tSortedURLs = Unsorted
    /\ \E tasks \in SUBSET GraphURLs :
         pypeObjects = [u \in GraphURLs |-> PypeObject(1, u, u \in tasks, << >>)]
    /\ lastCall = NoCall
    /\ objectURL = << >>
    /\ serialPc = "call" /\ position = 0 /\ callLog = << >> /\ bodyRaises = {}
    /\ SchedulerIdle

\* controller.py:393-394: getSortedURLs returns the list or raises.
SerialBegin ==
    /\ serialPc = "call"
    /\ tSortedURLs' = getSortedURLs(rdfGraph, objs, iter)
    /\ IF tSortedURLs'.outcome = "TaskExecutionError"
         THEN serialPc' = "raised" /\ position' = position
         ELSE serialPc' = "for" /\ position' = 1
    /\ UNCHANGED <<schedulerVars, rdfGraph, objs, iter, callLog, bodyRaises, registryVars>>

\* controller.py:395-397: the object is no task.
SerialContinue ==
    /\ serialPc = "for"
    /\ position <= Len(tSortedURLs.L)
    /\ ~pypeObjects[tSortedURLs.L[position]].isTask
    /\ position' = position + 1
    /\ UNCHANGED <<schedulerVars, graphVars, serialPc, callLog, bodyRaises, registryVars>>

\* controller.py:398-400: obj() returns and obj.finalize() is called.
SerialRun ==
    /\ serialPc = "for"
    /\ position <= Len(tSortedURLs.L)
    /\ LET URL == tSortedURLs.L[position]
       IN /\ pypeObjects[URL].isTask
          /\ callLog' = callLog \o << <<"body", URL>>, <<"finalize", URL>> >>
    /\ position' = position + 1
    /\ UNCHANGED <<schedulerVars, graphVars, serialPc, bodyRaises, registryVars>>

\* controller.py:399: obj() raises, and the exception leaves refreshTargets.
SerialBodyRaises ==
    /\ serialPc = "for"
    /\ position <= Len(tSortedURLs.L)
    /\ LET URL == tSortedURLs.L[position]
       IN /\ pypeObjects[URL].isTask
          /\ callLog' = Append(callLog, <<"body", URL>>)
          /\ bodyRaises' = bodyRaises \cup {URL}
    /\ serialPc' = "raised"
    /\ UNCHANGED <<schedulerVars, graphVars, position, registryVars>>

\* controller.py:401-402, with the default callback (None, None, None), for
\* which _runCallback (405, 420) does nothing.
SerialReturn ==
    /\ serialPc = "for"
    /\ position > Len(tSortedURLs.L)
    /\ serialPc' = "returned"
    /\ UNCHANGED <<schedulerVars, graphVars, position, callLog, bodyRaises, registryVars>>

NextSerial ==
    \/ SerialBegin
    \/ SerialContinue
    \/ SerialRun
    \/ SerialBodyRaises
    \/ SerialReturn

SpecSerial == InitSerial /\ [][NextSerial]_vars

\* ------------------------------------------------------------ the registry

\* Two data objects that share a URL, a third with a URL of its own, and two
\* tasks that share a URL; the tasks are plain tasks (no PypeTaskCollection)
\* on plain files (no PypeSplittableLocalFile).
FileA1 == PypeObject(1, "file://a", FALSE, << >>)
FileA2 == PypeObject(2, "file://a", FALSE, << >>)
FileB == PypeObject(3, "file://b", FALSE, << >>)
Task1 == PypeObject(4, "task://t", TRUE, <<FileA1, FileB>>)
Task2 == PypeObject(5, "task://t", TRUE, <<FileA2>>)

DataObjects == {FileA1, FileA2, FileB}
TaskObjects == {Task1, Task2}

\* The argument lists of the calls: one or two objects.
Lists(set) == {<<x>> : x \in set} \cup {<<x, y>> : x, y \in set}

\* self._pypeObjects[URL] = obj, on a dict kept as a function.
SetItem(d, URL, obj) == [u \in DOMAIN d \cup {URL} |-> IF u = URL THEN obj ELSE d[u]]

\* del self._pypeObjects[URL]
DelItem(d, URL) == [u \in DOMAIN d \ {URL} |-> d[u]]

\* A variant of lines 222-227 that registers the object in place of the one
\* that holds its URL.
addObject_Overwrite(st, obj) ==
    IF st.raised THEN st ELSE [st EXCEPT !.objs = SetItem(@, obj.URL, obj)]

\* controller.py:222-227, the body of the for loop of addObjects: st is
\* [objs, raised], the dict and whether PypeError has been raised.
addObject(st, obj) ==
    IF st.raised THEN st
    ELSE IF obj.URL \in DOMAIN st.objs
      THEN IF st.objs[obj.URL].id # obj.id THEN [st EXCEPT !.raised = TRUE] ELSE st
      ELSE [st EXCEPT !.objs = SetItem(@, obj.URL, obj)]

\* controller.py:217-227
RECURSIVE addObjects(_, _)
addObjects(st, list) ==
    IF list = << >> THEN st ELSE addObjects(addObject(st, Head(list)), Tail(list))

\* controller.py:234-257, for plain tasks: the data objects of the task, one
\* addObjects call each (250-255), then the task (257).
RECURSIVE addTasks(_, _)
addTasks(st, taskList) ==
    IF taskList = << >> THEN st
    ELSE LET taskObj == Head(taskList)
         IN addTasks(addObjects(st, taskObj.dataObjs \o <<taskObj>>), Tail(taskList))

\* controller.py:268-276
RECURSIVE removeObjects(_, _)
removeObjects(st, list) ==
    IF list = << >> \/ st.raised THEN st
    ELSE LET obj == Head(list)
         IN IF obj.URL \in DOMAIN st.objs
              THEN removeObjects([st EXCEPT !.objs = DelItem(@, obj.URL)], Tail(list))
              ELSE [st EXCEPT !.raised = TRUE]

\* The URLs that updateURL is given: the three of the objects and one more.
RegistryURLs == {"file://a", "file://b", "task://t", "file://c"}

\* controller.py:278-282; st is [objs, urls, raised], the dict, the URL
\* attribute of every object and whether KeyError has been raised (279).
\* obj._updateURL(newURL) sets the URL attribute of the object.
updateURL(st, oldURL, newURL) ==
    IF oldURL \notin DOMAIN st.objs THEN [st EXCEPT !.raised = TRUE]
    ELSE LET obj == [st.objs[oldURL] EXCEPT !.URL = newURL]
         IN [st EXCEPT !.urls[obj.id] = newURL,
                       !.objs = DelItem(SetItem(@, newURL, obj), oldURL)]

\* The object as the caller holds it: with the URL attribute it has now, its
\* data objects likewise.
Current(o) ==
    [o EXCEPT !.URL = objectURL[o.id],
              !.dataObjs = [i \in DOMAIN o.dataObjs |->
                               [o.dataObjs[i] EXCEPT !.URL = objectURL[o.dataObjs[i].id]]]]

CurrentObjects(set) == {Current(o) : o \in set}

InitRegistry ==
    /\ pypeObjects = << >>
    /\ lastCall = NoCall
    /\ objectURL = [id \in {o.id : o \in DataObjects \cup TaskObjects} |->
                       (CHOOSE o \in DataObjects \cup TaskObjects : o.id = id).URL]
    /\ SchedulerIdle /\ GraphIdle /\ SerialIdle

\* A call ended: the dict it left, and PypeError if it raised.
Called(op, args, st) ==
    /\ lastCall.n < MaxRegistryCalls
    /\ pypeObjects' = st.objs
    /\ lastCall' = [op |-> op, args |-> args,
                    outcome |-> IF st.raised THEN "PypeError" ELSE "returned",
                    n |-> lastCall.n + 1]
    /\ UNCHANGED <<schedulerVars, graphVars, serialVars, objectURL>>

Started == [objs |-> pypeObjects, raised |-> FALSE]

CallAddObjects ==
    \E args \in Lists(CurrentObjects(DataObjects \cup TaskObjects)) :
        Called("addObjects", args, addObjects(Started, args))

CallAddTasks ==
    \E args \in Lists(CurrentObjects(TaskObjects)) :
        Called("addTasks", args, addTasks(Started, args))

CallRemoveObjects ==
    \E args \in Lists(CurrentObjects(DataObjects \cup TaskObjects)) :
        Called("removeObjects", args, removeObjects(Started, args))

CallUpdateURL ==
    \E oldURL, newURL \in RegistryURLs :
        LET st == updateURL([objs |-> pypeObjects, urls |-> objectURL, raised |-> FALSE],
                            oldURL, newURL)
        IN /\ lastCall.n < MaxRegistryCalls
           /\ pypeObjects' = st.objs
           /\ objectURL' = st.urls
           /\ lastCall' = [op |-> "updateURL", args |-> <<oldURL, newURL>>,
                           outcome |-> IF st.raised THEN "KeyError" ELSE "returned",
                           n |-> lastCall.n + 1]
           /\ UNCHANGED <<schedulerVars, graphVars, serialVars>>

NextRegistry ==
    \/ CallAddObjects
    \/ CallAddTasks
    \/ CallRemoveObjects
    \/ CallUpdateURL

SpecRegistry == InitRegistry /\ [][NextRegistry]_vars

\* ------------------------------------------------------------- properties

\* The tasks a task has a prereq path to.
TransitivePrereqs(t) == transitive_objects(prereq, t) \ {t}

\* The task has been admitted by the scan and its done or fail message has
\* not been drained: it is ready, submitted or running.
Active(t) ==
    /\ t \in DOMAIN jobStatusMap
    /\ jobStatusMap[t] \notin {TaskInitialized, TaskDone, TaskFail}

\* The task has been given a worker and its done or fail message has not
\* been drained.
HoldsSlots(t) ==
    /\ t \in DOMAIN task2thread
    /\ jobStatusMap[t] \notin {TaskDone, TaskFail}

RECURSIVE SlotSum(_)
SlotSum(S) ==
    IF S = {} THEN 0
    ELSE LET t == CHOOSE x \in S : TRUE IN taskObjs[t].nSlots + SlotSum(S \ {t})

ShareOutput(t, u) == taskObjs[t].outputDataObjs \cap taskObjs[u].outputDataObjs # {}

ShareMutable(t, u) == taskObjs[t].mutableDataObjs \cap taskObjs[u].mutableDataObjs # {}

\* C1: a task is ready, submitted or has a worker only in a state where every
\* transitive prerequisite task of it has status "done"; so a task with a
\* failed prerequisite is never ready or submitted.
C1_PrereqsDoneWhenAdmitted ==
    \A t \in DOMAIN jobStatusMap :
        (jobStatusMap[t] \in {"ready", "submitted"} \/ t \in DOMAIN task2thread)
            => \A p \in TransitivePrereqs(t) : jobStatusMap[p] = TaskDone

\* A task is submitted after a prerequisite of it was run by this call.
C1_Witness ==
    \E t \in DOMAIN jobStatusMap :
        /\ jobStatusMap[t] = "submitted"
        /\ \E p \in TransitivePrereqs(t) : p \in DOMAIN task2thread

\* C2: the slots in use never exceed MAX_NUMBER_TASK_SLOT, the workers alive
\* never exceed CONCURRENT_THREAD_ALLOWED, the slots in use are those of the
\* tasks that hold slots, and a task that needs every slot holds them alone.
C2_SlotsAndWorkersBounded ==
    /\ usedTaskSlots <= MAX_NUMBER_TASK_SLOT
    /\ alive(task2thread) <= CONCURRENT_THREAD_ALLOWED
    /\ usedTaskSlots = SlotSum({t \in Tasks : HoldsSlots(t)})
    /\ \A t \in Tasks :
         (HoldsSlots(t) /\ taskObjs[t].nSlots = MAX_NUMBER_TASK_SLOT)
             => \A u \in Tasks \ {t} : ~HoldsSlots(u)

\* A task that needs every slot holds them while a ready task waits.
C2_Witness ==
    \E t \in Tasks, u \in Tasks :
        /\ t # u
        /\ MAX_NUMBER_TASK_SLOT > 1
        /\ HoldsSlots(t)
        /\ taskObjs[t].nSlots = MAX_NUMBER_TASK_SLOT
        /\ jobStatusMap[u] = "ready"

\* C3: between the steps of the loop, the slots in use are the slots of the
\* tasks whose status in jobStatusMap is "submitted".
C3_UsedSlotsOfSubmitted ==
    pc \in {"loop", "drain"}
        => usedTaskSlots = SlotSum({t \in Tasks : jobStatusMap[t] = "submitted"})

\* C4 as stated: two tasks that declare a common output are never active at
\* the same time.
C4_NoCommonOutputActive ==
    \A t \in Tasks, u \in Tasks :
        (t # u /\ ShareOutput(t, u)) => ~(Active(t) /\ Active(u))

\* C4, amended: two tasks that declare a common output are active at the same
\* time only if one of them was marked ready while ActiveCheckLimit or more
\* outputs were claimed; the collision error is raised for a task that passed
\* the tests before it, while fewer outputs than that were claimed; and the
\* loop never goes on with such a task left waiting.
C4_CommonOutputOnlyPastLimit ==
    /\ \A t \in Tasks, u \in Tasks :
         (t # u /\ ShareOutput(t, u) /\ Active(t) /\ Active(u))
             => \E x \in {t, u} :
                    /\ readyLog[x] # << >>
                    /\ readyLog[x][Len(readyLog[x])] >= ActiveCheckLimit
    /\ raised = "OutputCollision"
         => \E t \in Tasks :
                /\ jobStatusMap[t] = TaskInitialized
                /\ ~PrereqsNotDone(jobStatusMap, t)
                /\ ~MutableCollision(mutableDataObjs, t)
                /\ Cardinality(activeDataObjs) < ActiveCheckLimit
                /\ \E u \in Tasks \ {t} : Active(u) /\ ShareOutput(t, u)
    /\ pc = "drain"
         => \A t \in Tasks :
                (jobStatusMap[t] = TaskInitialized /\ OutputCollision(activeDataObjs, t))
                    => (PrereqsNotDone(jobStatusMap, t) \/ MutableCollision(mutableDataObjs, t))

\* The collision error was raised while another task held the output.
C4_Witness ==
    /\ raised = "OutputCollision"
    /\ \E t \in Tasks, u \in Tasks :
         t # u /\ ShareOutput(t, u) /\ jobStatusMap[u] = "submitted"
               /\ jobStatusMap[t] = TaskInitialized

\* C5: two tasks that declare a common mutable are never active at the same
\* time; a mutable is claimed by one task at a time, and a task holds the
\* claims on its mutables exactly while it is active.
C5_NoCommonMutableActive ==
    /\ \A t \in Tasks, u \in Tasks :
         (t # u /\ ShareMutable(t, u)) => ~(Active(t) /\ Active(u))
    /\ \A c \in mutableDataObjs, d \in mutableDataObjs : c[2] = d[2] => c[1] = d[1]
    /\ \A t \in Tasks : \A o \in taskObjs[t].mutableDataObjs :
         (<<t, o>> \in mutableDataObjs) <=> Active(t)

\* Of two independent tasks that declare the same mutable, the later one is
\* active after the earlier one was run and its done message drained.
C5_Witness ==
    \E t \in Tasks, u \in Tasks :
        /\ Index(t) < Index(u)
        /\ ShareMutable(t, u)
        /\ prereq[t] = {} /\ prereq[u] = {}
        /\ t \in DOMAIN task2thread
        /\ jobStatusMap[t] = TaskDone
        /\ Active(u)

\* The task had status TaskInitialized when the call began and jobStatusMap
\* now holds "done" or "fail" for it.
BecameTerminal(t) ==
    /\ t \in DOMAIN jobStatusMap
    /\ \E e \in Range(sortedTaskList) : e[1] = t /\ e[2] = TaskInitialized
    /\ jobStatusMap[t] \in {TaskDone, TaskFail}

\* C6: finalize() has been called once for every task whose status became
\* "done" or "fail" in this call and never for another task; each call saw the
\* terminal status in jobStatusMap and, for a task that was run, its claims
\* still in the active sets.
C6_FinalizeOnce ==
    \A t \in Tasks :
        /\ Len(finalizeLog[t]) = IF BecameTerminal(t) THEN 1 ELSE 0
        /\ \A i \in 1..Len(finalizeLog[t]) :
             /\ finalizeLog[t][i].status \in {TaskDone, TaskFail}
             /\ finalizeLog[t][i].status = jobStatusMap[t]
             /\ t \in DOMAIN task2thread => finalizeLog[t][i].claimsHeld

\* A task that declares an output and a mutable was run and finalized, and
\* its claims are gone.
C6_Witness ==
    \E t \in DOMAIN task2thread :
        /\ Len(finalizeLog[t]) = 1
        /\ taskObjs[t].outputDataObjs # {}
        /\ taskObjs[t].mutableDataObjs # {}
        /\ \A c \in activeDataObjs \cup mutableDataObjs : c[1] # t

\* C7: when the call has returned True, every task has status "done".
C7_ReturnedAllDone ==
    pc = "returned" => \A t \in Tasks : jobStatusMap[t] = TaskDone

\* exitOnFailure is false, T1 fails, T2 succeeds and depends on nothing, T3
\* depends on T1.
C8_Scenario ==
    /\ ~exitOnFailure
    /\ prereq = [t \in TaskNames |-> IF t = "T3" THEN {"T1"} ELSE {}]
    /\ taskObjs = [t \in TaskNames |->
                     TaskObject(IF t = "T1" THEN Fails ELSE Succeeds, 1, {}, {})]

\* C8 as stated: the call never raises TaskFailureError and ends with
\* LateTaskFailureError, one failure and one success counted.
C8_AlwaysLateFailure ==
    C8_Scenario =>
        /\ raised # "TaskFailureError"
        /\ pc = "reraised"
             => (raised = "LateTaskFailureError"
                 /\ failedJobCount = 1 /\ succeededJobCount = 1)

\* C8, amended: the call raises TaskFailureError exactly when the drain pass
\* that drains T1's fail message ends with no done message drained so far;
\* otherwise it goes on until no worker is alive and raises
\* LateTaskFailureError with one failure and one success counted.  T3 never
\* leaves TaskInitialized and the call never returns True.
C8_LateUnlessNoSuccessYet ==
    C8_Scenario =>
        /\ raised \in {"none", "TaskFailureError", "LateTaskFailureError"}
        /\ pc # "returned"
        /\ raised = "TaskFailureError" => (failedJobCount = 1 /\ succeededJobCount = 0)
        /\ failedJobCount = 1 => (raised = "TaskFailureError" \/ succeededJobCount = 1)
        /\ raised = "LateTaskFailureError"
             => /\ failedJobCount = 1 /\ succeededJobCount = 1
                /\ alive(task2thread) = 0
                /\ jobStatusMap["T1"] = TaskFail /\ jobStatusMap["T2"] = TaskDone
        /\ "T3" \in DOMAIN jobStatusMap => jobStatusMap["T3"] = TaskInitialized

\* The call has ended with LateTaskFailureError.
C8_Witness ==
    C8_Scenario /\ pc = "reraised" /\ raised = "LateTaskFailureError"

\* C9: a drain pass that reaches its end raises TaskFailureError if and only
\* if failedJobCount # 0 and (exitOnFailure or succeededJobCount = 0);
\* TaskFailureError is raised nowhere else; and with exitOnFailure, once a
\* failure is counted no status changes and no worker is created.
C9_PromptFailureIff ==
    [][/\ (pc = "drain" /\ pc' # "drain" /\ raised' # "ProtocolViolation")
            => ((raised' = "TaskFailureError")
                    <=> (failedJobCount' # 0 /\ (exitOnFailure \/ succeededJobCount' = 0)))
       /\ (raised' = "TaskFailureError" /\ raised # "TaskFailureError") => pc = "drain"
       /\ (exitOnFailure /\ failedJobCount # 0)
            => (jobStatusMap' = jobStatusMap /\ DOMAIN task2thread' = DOMAIN task2thread)
      ]_vars

\* With exitOnFailure, TaskFailureError was raised after a success, with a
\* task left that was never admitted.
C9_Witness ==
    /\ exitOnFailure
    /\ raised = "TaskFailureError"
    /\ succeededJobCount > 0
    /\ \E t \in Tasks : jobStatusMap[t] = TaskInitialized

\* C10: an exception that escapes _refreshTargets is handled by the except
\* arm: shutdown_event is set before the join, and the exception is re-raised
\* only when no worker of the call is alive, unless the join was interrupted,
\* and then notifyTerminate was called.
C10_ShutdownThenJoin ==
    /\ raised # "none" => pc \in {"except", "join", "reraised"}
    /\ pc \in {"except", "join", "reraised"} => raised # "none"
    /\ shutdown_event <=> pc \in {"join", "reraised"}
    /\ (pc = "reraised" /\ ~terminateNotified) => alive(task2thread) = 0
    /\ terminateNotified => pc = "reraised"

\* TaskFailureError was re-raised, without interruption, in a call that had
\* created two workers or more.
C10_Witness ==
    /\ pc = "reraised"
    /\ ~terminateNotified
    /\ raised = "TaskFailureError"
    /\ Cardinality(DOMAIN task2thread) >= 2

\* C11: when a task requests more slots than MAX_NUMBER_TASK_SLOT or the
\* prereq edges form a cycle, the call raises TaskExecutionError before the
\* loop: no worker is created, no task is marked ready, no finalize() is
\* called, and no step changes the status of a task.
C11_RaisesBeforeLoop ==
    /\ []((pc # "call" /\ ((\E t \in Tasks : taskObjs[t].nSlots > MAX_NUMBER_TASK_SLOT)
                            \/ HasCycle(PrereqRows(prereq))))
            => /\ raised = "TaskExecutionError"
               /\ pc \in {"except", "join", "reraised"}
               /\ task2thread = << >>
               /\ messageQueue = << >>
               /\ \A t \in Tasks : finalizeLog[t] = << >> /\ readyLog[t] = << >>
               /\ jobStatusMap \in {<< >>, [t \in Tasks |-> taskObjs[t].status]})
    /\ [][(pc = "call" /\ raised' = "TaskExecutionError") => taskObjs' = taskObjs]_vars

\* The call was re-raised for a cycle among tasks, one of them up to date.
C11_Witness ==
    /\ pc = "reraised"
    /\ raised = "TaskExecutionError"
    /\ HasCycle(PrereqRows(prereq))
    /\ \E t \in Tasks : taskObjs[t].satisfied

\* The graph that getSortedURLs sorted, as rows <<s, o>>.
SortedRows ==
    LET graph == PypeGraph(rdfGraph, [isNone |-> objs = {},
                                      nodes |-> connectedPypeNodes(rdfGraph, objs)])
    IN {<<e[2], e[1]>> : e \in graph.allEdges}

\* C12: for a graph with a cycle tSort raises; for a graph without, it returns
\* a list that holds every node of the graph once, each prerequisite before
\* every node that needs it.
C12_SortedOrCycle ==
    tSortedURLs.outcome # "unsorted" =>
        IF HasCycle(SortedRows)
          THEN tSortedURLs.outcome = "TaskExecutionError"
          ELSE LET L == tSortedURLs.L
               IN /\ tSortedURLs.outcome = "returned"
                  /\ Range(L) = {r[1] : r \in SortedRows} \cup {r[2] : r \in SortedRows}
                  /\ \A i, j \in 1..Len(L) : L[i] = L[j] => i = j
                  /\ \A r \in SortedRows :
                       \E i, j \in 1..Len(L) : i < j /\ L[i] = r[2] /\ L[j] = r[1]

\* A graph of three nodes, one of them needing the two others, was sorted.
C12_Witness ==
    /\ tSortedURLs.outcome = "returned"
    /\ Len(tSortedURLs.L) = Cardinality(GraphURLs)
    /\ \E n \in GraphURLs : Cardinality({r \in SortedRows : r[1] = n}) = 2

\* C14: with no target given, the sorted list holds every object registered
\* in the workflow.
C14_EveryRegisteredSorted ==
    (objs = {} /\ tSortedURLs.outcome = "returned") => GraphURLs \subseteq Range(tSortedURLs.L)

DiamondCall == Tasks = Range(DiamondURLs) /\ DOMAIN jobStatusMap = Tasks

\* The task has left the status Initialized or has been given a worker.
Admitted(t) == jobStatusMap[t] # TaskInitialized \/ t \in DOMAIN task2thread

\* C15: in the diamond, no task but A is admitted until A is done, and D is
\* admitted only when B and C are both done.
C15_DiamondOrder ==
    DiamondCall =>
        /\ jobStatusMap["A"] # TaskDone => \A t \in {"B", "C", "D"} : ~Admitted(t)
        /\ Admitted("D") => jobStatusMap["B"] = TaskDone /\ jobStatusMap["C"] = TaskDone

\* A is done, B and C are submitted side by side, D waits.
C15_Witness ==
    /\ DiamondCall
    /\ jobStatusMap = [t \in Tasks |-> CASE t = "A" -> TaskDone
                                           [] t \in {"B", "C"} -> "submitted"
                                           [] t = "D" -> TaskInitialized]
    /\ \A t \in {"B", "C"} : t \in DOMAIN task2thread /\ task2thread[t] = "running"

\* The tasks whose status in jobStatusMap is "submitted".
SubmittedTasks == {t \in DOMAIN jobStatusMap : jobStatusMap[t] = "submitted"}

C18_StatusAmongFive ==
    \A t \in DOMAIN jobStatusMap :
        jobStatusMap[t] \in {TaskInitialized, "ready", "submitted", TaskDone, TaskFail}

\* C17: when the call has returned True, every worker it started having
\* posted done after at most a started message, every task has status "done".
C17_AllDoneWhenWorkersSucceed ==
    (/\ pc = "returned"
     /\ \A t \in DOMAIN task2thread :
           taskObjs[t].reports = MsgDone /\ taskObjs[t].announces \in {"none", MsgStarted1})
        => \A t \in Tasks : jobStatusMap[t] = TaskDone

\* The tasks of the prerequisite closure of the targets.
ClosureTasks == {u \in connectedPypeNodes(rdfGraph, objs) : pypeObjects[u].isTask}

\* The positions of callLog that hold the call.
Calls(call) == {i \in 1..Len(callLog) : callLog[i] = call}

\* C19: when the serial refreshTargets, given targets, has returned, every
\* task of the closure of the targets had body() and then finalize() called,
\* each once, after the finalize() of every prerequisite task of it.
C19_ClosureRunInOrder ==
    (serialPc = "returned" /\ objs # {}) =>
        \A t \in ClosureTasks :
            /\ Cardinality(Calls(<<"body", t>>)) = 1
            /\ Cardinality(Calls(<<"finalize", t>>)) = 1
            /\ \A i \in Calls(<<"body", t>>) :
                 /\ callLog[i + 1] = <<"finalize", t>>
                 /\ \A p \in ClosureTasks : <<t, p>> \in TransitiveClosure(rdfGraph)
                       => \E j \in Calls(<<"finalize", p>>) : j < i

\* The objects that the call just made asks the registry to add, in order.
RECURSIVE Flatten(_)
Flatten(taskList) ==
    IF taskList = << >> THEN << >>
    ELSE Head(taskList).dataObjs \o <<Head(taskList)>> \o Flatten(Tail(taskList))

Added(call) ==
    CASE call.op = "addObjects" -> Range(call.args)
      [] call.op = "addTasks" -> Range(Flatten(call.args))
      [] OTHER -> {}

\* What a registry call owes, as a relation between the dict before it and
\* the dict and outcome after it.
CallContract ==
    /\ \A o \in Added(lastCall') :
         (o.URL \in DOMAIN pypeObjects /\ pypeObjects[o.URL].id # o.id)
             => /\ lastCall'.outcome = "PypeError"
                /\ o.URL \in DOMAIN pypeObjects'
                /\ pypeObjects'[o.URL] = pypeObjects[o.URL]
    /\ (/\ Added(lastCall') # {}
        /\ \A o \in Added(lastCall') :
              o.URL \in DOMAIN pypeObjects /\ pypeObjects[o.URL].id = o.id)
          => (lastCall'.outcome = "returned" /\ pypeObjects' = pypeObjects)
    /\ (/\ lastCall'.op = "removeObjects"
        /\ \E i \in 1..Len(lastCall'.args) :
              lastCall'.args[i].URL \notin DOMAIN pypeObjects)
          => lastCall'.outcome = "PypeError"

\* C20: every registered object is registered under its URL; a call that adds
\* an object whose URL is registered to another object raises PypeError and
\* leaves that URL's object in place; a call that adds only objects that are
\* registered already returns and changes nothing; a call that removes an
\* object whose URL is not registered raises PypeError.
C20_RegistryContract ==
    /\ [](\A u \in DOMAIN pypeObjects : pypeObjects[u].URL = u)
    /\ [][CallContract]_vars

\* The third call, an addTasks call, raised for a task one of whose files has
\* the URL of another registered file; the task was not registered.
C20_Witness ==
    /\ lastCall.op = "addTasks"
    /\ lastCall.outcome = "PypeError"
    /\ lastCall.n = MaxRegistryCalls
    /\ \E o \in Added(lastCall) : o.URL \in DOMAIN pypeObjects /\ pypeObjects[o.URL].id # o.id
    /\ "task://t" \notin DOMAIN pypeObjects

\* The step skips task t as already done: only lines 641-645 take a
\* jobStatusMap value from TaskInitialized to "done".
Skips(t) ==
    /\ pc = "loop"
    /\ t \in DOMAIN jobStatusMap
    /\ jobStatusMap[t] = TaskInitialized
    /\ jobStatusMap'[t] = TaskDone

\* What the skip of t does apart from updatedTaskURLs.
SkipEffects(t) ==
    /\ taskObjs'[t].status = TaskDone
    /\ Len(finalizeLog'[t]) = Len(finalizeLog[t]) + 1
    /\ finalizeLog'[t][Len(finalizeLog'[t])].status = TaskDone
    /\ t \notin DOMAIN task2thread'
    /\ readyLog'[t] = readyLog[t]
    /\ \A c \in activeDataObjs' \cup mutableDataObjs' : c[1] # t

ScannedAfterUpdate(t) ==
    /\ pc = "loop" /\ pc' # "loop"
    /\ raised' # "OutputCollision"
    /\ t \in DOMAIN jobStatusMap
    /\ jobStatusMap[t] = TaskInitialized
    /\ prereqJobURLMap[t] \cap updatedTaskURLs # {}

\* C22: a task with a prerequisite task in updatedTaskURLs is not skipped,
\* whatever isSatisfied() would answer: when its prerequisites are all done
\* and no other task holds a mutable of it, it is marked ready (and may be
\* submitted in the same pass); otherwise it stays TaskInitialized.
C22_UpdatedPrereqNotSkipped ==
    [][\A t \in Range(AllURLs) :
          ScannedAfterUpdate(t)
             => IF /\ \A p \in prereqJobURLMap[t] : jobStatusMap'[p] = TaskDone
                   /\ ~MutableCollision(mutableDataObjs', t)
                  THEN /\ jobStatusMap'[t] \in {"ready", "submitted"}
                       /\ Len(readyLog'[t]) = 1
                       /\ finalizeLog'[t] = << >>
                  ELSE jobStatusMap'[t] = TaskInitialized]_vars

\* A task for which isSatisfied() is true has a worker, a prerequisite of it
\* having been run in this call.
C22_Witness ==
    \E t \in DOMAIN task2thread :
        /\ taskObjs[t].satisfied
        /\ callCount = 1
        /\ jobStatusMap[t] = "submitted"
        /\ prereqJobURLMap[t] \cap updatedTaskURLs # {}

\* C23: when the loop has ended, with no failure counted a callable callback
\* given with a list and a dict has been invoked and the call has returned
\* True; with a failure counted LateTaskFailureError is raised and the
\* callback has not been invoked.
C23_CallbackIffNoFailure ==
    callbackCalled =>
        /\ (failedJobCount = 0 /\ callback = <<"callable", "list", "dict">>)
              => (pc = "returned" /\ raised = "none" /\ runCallback(callback) = "invoked")
        /\ failedJobCount > 0
              => (raised = "LateTaskFailureError" /\ runCallback(callback) # "invoked")

\* The drain loop runs over a queue that holds unexpected messages only.
DrainsUnexpectedOnly ==
    /\ pc = "drain" /\ pc' # "drain"
    /\ messageQueue # << >>
    /\ \A i \in 1..Len(messageQueue) : messageQueue[i][2] = MsgOther

\* C24: draining messages that are none of done, fail and the two started
\* messages leaves jobStatusMap, updatedTaskURLs, the active sets and the
\* counters unchanged.
C24_UnexpectedIgnored ==
    [][DrainsUnexpectedOnly
         => UNCHANGED <<jobStatusMap, updatedTaskURLs, activeDataObjs, mutableDataObjs,
                        nSubmittedJob, usedTaskSlots, succeededJobCount, failedJobCount>>]_vars

\* The scheduler is at the head of the loop with no worker alive and no
\* message in the queue.
Quiescent == pc = "loop" /\ alive(task2thread) = 0 /\ messageQueue = << >>

\* C25: the assertion of lines 663-665 never fails: when no worker is alive
\* and the queue is empty, every task that was given a worker has the status
\* "done" or "fail".
C25_ExitAssertionHolds ==
    /\ raised # "AssertionError"
    /\ Quiescent => \A t \in DOMAIN task2thread : jobStatusMap[t] \in {TaskDone, TaskFail}

\* No worker is alive, nothing is ready and the queue is empty, after two
\* workers or more have run, one of which posted a started message and one
\* of which failed.
C25_Witness ==
    /\ Quiescent
    /\ jobsReadyToBeSubmitted = << >>
    /\ Cardinality(DOMAIN task2thread) >= 2
    /\ \E t \in DOMAIN task2thread : taskObjs[t].announces # "none"
    /\ \E t \in DOMAIN task2thread : jobStatusMap[t] = TaskFail

\* The tasks that the step submits.
SubmittedNow ==
    {t \in DOMAIN jobStatusMap' : t \in DOMAIN jobStatusMap /\ jobStatusMap'[t] = "submitted"
                                   /\ jobStatusMap[t] # "submitted"}

\* C26: the ready tasks are submitted in the order in which they were marked
\* ready.  In every step of a call, a task of the queue that stays pending
\* keeps every task behind it pending; while a task of the queue stays
\* pending no task marked ready in this pass is submitted; of the tasks
\* marked ready in this pass, those submitted were scanned before those left
\* pending; and the queue left lists the pending tasks in that same order.
C26_DispatchInReadyOrder ==
    [][pc = "loop" =>
         LET old == jobsReadyToBeSubmitted
             new == jobsReadyToBeSubmitted'
         IN /\ \A i, j \in 1..Len(old) :
                  (i < j /\ old[i] \in Range(new)) => old[j] \in Range(new)
            /\ (Range(old) \cap Range(new) # {}) => SubmittedNow \subseteq Range(old)
            /\ \A t \in SubmittedNow \ Range(old) : \A u \in Range(new) \ Range(old) :
                  Index(t) < Index(u)
            /\ \A i, j \in 1..Len(new) : i < j =>
                  \/ new[i] \in Range(old) /\ new[j] \notin Range(old)
                  \/ /\ new[i] \in Range(old) /\ new[j] \in Range(old)
                     /\ \E k, l \in 1..Len(old) : k < l /\ old[k] = new[i] /\ old[l] = new[j]
                  \/ /\ new[i] \notin Range(old) /\ new[j] \notin Range(old)
                     /\ Index(new[i]) < Index(new[j])]_vars

\* The first ready task needs more slots than are free; a task marked ready
\* after it would fit, a worker could be started, and it is left pending.
C26_Witness ==
    /\ pc = "drain"
    /\ Len(jobsReadyToBeSubmitted) >= 2
    /\ alive(task2thread) < CONCURRENT_THREAD_ALLOWED
    /\ MAX_NUMBER_TASK_SLOT - usedTaskSlots < taskObjs[jobsReadyToBeSubmitted[1]].nSlots
    /\ MAX_NUMBER_TASK_SLOT - usedTaskSlots >= taskObjs[jobsReadyToBeSubmitted[2]].nSlots
    /\ jobStatusMap[jobsReadyToBeSubmitted[2]] = "ready"

\* C27: the list that the sort returned is the list that a run on the same
\* rows and targets returns under every other iteration order of the sets.
C27_SortDeterministic ==
    tSortedURLs.outcome = "returned" =>
        \A other \in Orders(GraphURLs) : getSortedURLs(rdfGraph, objs, other) = tSortedURLs

\* C28: within a call a task is marked ready once at most and given a worker
\* once at most: a status that has left TaskInitialized does not return to
\* it, a status that has left "ready" does not return to it, and no task
\* that has a worker is submitted again.
C28_OneWorkerPerTask ==
    /\ [](\A t \in DOMAIN readyLog : Len(readyLog[t]) <= 1)
    /\ [][pc # "call" =>
            /\ SubmittedNow \cap DOMAIN task2thread = {}
            /\ \A t \in DOMAIN jobStatusMap :
                  /\ jobStatusMap[t] # TaskInitialized => jobStatusMap'[t] # TaskInitialized
                  /\ jobStatusMap[t] \notin {TaskInitialized, "ready"}
                        => jobStatusMap'[t] # "ready"
                  /\ t \in updatedTaskURLs => jobStatusMap'[t] # "submitted"]_vars

\* A task that depends on a task whose done message was drained is
\* submitted, the scan having passed over the finished task again.
C28_Witness ==
    /\ pc = "drain"
    /\ \E t, u \in DOMAIN task2thread :
         /\ t \in prereqJobURLMap[u]
         /\ task2thread[t] = "exited"
         /\ jobStatusMap[t] = TaskDone
         /\ t \in updatedTaskURLs
         /\ jobStatusMap[u] = "submitted"

\* C29: when the call returns True, the two active sets and the pending
\* list are empty, the two counters of submitted work are 0, and every task
\* still TaskInitialized has a prerequisite task that is not "done".
C29_ExitReleasesAll ==
    pc = "returned" =>
        /\ activeDataObjs = {}
        /\ mutableDataObjs = {}
        /\ usedTaskSlots = 0
        /\ nSubmittedJob = 0
        /\ jobsReadyToBeSubmitted = << >>
        /\ \A t \in DOMAIN jobStatusMap :
              jobStatusMap[t] = TaskInitialized
                 => \E u \in prereqJobURLMap[t] : jobStatusMap[u] # TaskDone

\* The call returned True after a worker ran for a task with an output and a
\* mutable object and a second task waited for that mutable object.
C29_Witness ==
    /\ pc = "returned"
    /\ \E t, u \in DOMAIN task2thread :
         /\ t # u
         /\ taskObjs[t].outputDataObjs # {}
         /\ taskObjs[t].mutableDataObjs \cap taskObjs[u].mutableDataObjs # {}

\* What an updateURL call on a registered URL owes: the object that was
\* registered under oldURL is registered under newURL, and every other
\* object that was registered is registered.
UpdateContract ==
    (lastCall'.op = "updateURL" /\ lastCall'.n # lastCall.n
       /\ lastCall'.args[1] \in DOMAIN pypeObjects)
      => /\ lastCall'.args[2] \in DOMAIN pypeObjects'
         /\ pypeObjects'[lastCall'.args[2]].id = pypeObjects[lastCall'.args[1]].id
         /\ \A u \in DOMAIN pypeObjects :
               \E v \in DOMAIN pypeObjects' : pypeObjects'[v].id = pypeObjects[u].id

\* C30: updateURL(oldURL, newURL) on a registered oldURL leaves the object
\* registered under newURL and drops no other object from the registry.
C30_UpdateURLKeepsAll == [][UpdateContract]_vars

====
